---- MODULE Spec2Model ----
(***************************************************************************)
(* Data skipping in kernel/src/scan/data_skipping.rs: the rewrite of a     *)
(* query predicate into a predicate over per-file statistics               *)
(* (as_data_skipping_predicate), and the DataSkippingFilter built from it  *)
(* (new, apply).                                                           *)
(***************************************************************************)
EXTENDS Integers, Sequences, FiniteSets, TLC

(***************************************************************************)
(* Bounds of the model.                                                    *)
(***************************************************************************)
\* column values and min/max statistics range over 0..MaxVal
MaxVal == 2
\* numRecords and nullCount range over 0..MaxCount
MaxCount == 2
\* a variadic And/Or of the input predicates has at most MaxArity children
MaxArity == 2
\* a metadata batch handed to apply has at most MaxBatch rows
MaxBatch == 3
\* the literal the predicates compare with (lit_int of the unit test)
LitVal == 1

(***************************************************************************)
(* Scalars.  A scalar is NULL, a long or a boolean; three-valued logic is  *)
(* the booleans plus NULL.                                                 *)
(***************************************************************************)
Null == [ty |-> "null", v |-> 0]
Long(n) == [ty |-> "long", v |-> n]
Bool(b) == [ty |-> "boolean", v |-> IF b THEN 1 ELSE 0]
True3 == Bool(TRUE)
False3 == Bool(FALSE)

\* Option<T>: None is the empty sequence, Some(x) the one-element sequence
None == << >>
Some(x) == << x >>

(***************************************************************************)
(* Expressions (crate::expressions::Expression).                           *)
(***************************************************************************)
Column(path) == [kind |-> "Column", name |-> path]
Literal(s) == [kind |-> "Literal", value |-> s]
Unary(op, e) == [kind |-> "UnaryOperation", op |-> op, expr |-> e]
Binary(op, l, r) == [kind |-> "BinaryOperation", op |-> op, left |-> l, right |-> r]
Variadic(op, es) == [kind |-> "VariadicOperation", op |-> op, exprs |-> es]

\* Expr::and / Expr::or / Expr::and_from / Expr::or_from build variadic nodes
Expr_and(a, b) == Variadic("And", << a, b >>)
Expr_or(a, b) == Variadic("Or", << a, b >>)
\* joined_column_expr!(prefix, col) and column_name!(prefix).join(col)
joined_column_expr(prefix, col) == Column(<< prefix >> \o col)

\* BinaryOperator::commute: the operator with its operands swapped
commute(op) ==
  CASE op = "LessThan" -> Some("GreaterThan")
    [] op = "LessThanOrEqual" -> Some("GreaterThanOrEqual")
    [] op = "GreaterThan" -> Some("LessThan")
    [] op = "GreaterThanOrEqual" -> Some("LessThanOrEqual")
    [] op \in {"Equal", "NotEqual", "Distinct"} -> Some(op)
    [] OTHER -> None

\* BinaryOperator::invert: a op b is NOT (a invert(op) b)
invert(op) ==
  CASE op = "LessThan" -> Some("GreaterThanOrEqual")
    [] op = "LessThanOrEqual" -> Some("GreaterThan")
    [] op = "GreaterThan" -> Some("LessThanOrEqual")
    [] op = "GreaterThanOrEqual" -> Some("LessThan")
    [] op = "Equal" -> Some("NotEqual")
    [] op = "NotEqual" -> Some("Equal")
    [] OTHER -> None

\* VariadicOperator::invert (De Morgan)
variadic_invert(op) == IF op = "And" THEN "Or" ELSE "And"

\* Expression::references: the column paths an expression mentions
RECURSIVE references(_)
references(e) ==
  CASE e.kind = "Column" -> {e.name}
    [] e.kind = "Literal" -> {}
    [] e.kind = "UnaryOperation" -> references(e.expr)
    [] e.kind = "BinaryOperation" -> references(e.left) \cup references(e.right)
    [] e.kind = "VariadicOperation" ->
         UNION {references(e.exprs[i]) : i \in 1..Len(e.exprs)}

(***************************************************************************)
(* The rewrite.                                                            *)
(***************************************************************************)
get_tight_null_expr(null_col) ==
  Expr_and(Binary("Distinct", Column(<< "tightBounds" >>), Literal(False3)),
           Binary("GreaterThan", null_col, Literal(Long(0))))

get_wide_null_expr(null_col) ==
  Expr_and(Binary("Equal", Column(<< "tightBounds" >>), Literal(False3)),
           Binary("Equal", Column(<< "numRecords" >>), null_col))

get_tight_not_null_expr(null_col) ==
  Expr_and(Binary("Distinct", Column(<< "tightBounds" >>), Literal(False3)),
           Binary("LessThan", null_col, Column(<< "numRecords" >>)))

get_wide_not_null_expr(null_col) ==
  Expr_and(Binary("Equal", Column(<< "tightBounds" >>), Literal(False3)),
           Binary("NotEqual", Column(<< "numRecords" >>), null_col))

RECURSIVE as_data_skipping_predicate(_)
RECURSIVE as_inverted_data_skipping_predicate(_)

\* Option::flatten over an iterator: the Some values, in order
flatten(opts) ==
  LET kept == SelectSeq(opts, LAMBDA o : o # None)
  IN  [i \in 1..Len(kept) |-> kept[i][1]]

\* the operands of a binary operation as (op, column, literal): the match of
\* lines 115-119; commute()? makes the rewrite None when commute is undefined
normalize_operands_no_commute(op, left, right) ==
  CASE left.kind = "Column" /\ right.kind = "Literal" ->
         Some([op |-> op, col |-> left.name, val |-> right])
    [] left.kind = "Literal" /\ right.kind = "Column" ->
         Some([op |-> op, col |-> right.name, val |-> left])
    [] OTHER -> None

normalize_operands(op, left, right) ==
  CASE left.kind = "Column" /\ right.kind = "Literal" ->
         Some([op |-> op, col |-> left.name, val |-> right])
    [] left.kind = "Literal" /\ right.kind = "Column" ->
         IF commute(op) = None THEN None
         ELSE Some([op |-> commute(op)[1], col |-> right.name, val |-> left])
    [] OTHER -> None

\* the match on the normalised operator, lines 120-137
rewrite_comparison(op, col, val) ==
  CASE op \in {"LessThan", "LessThanOrEqual"} ->
         Some(Binary(op, joined_column_expr("minValues", col), val))
    [] op \in {"GreaterThan", "GreaterThanOrEqual"} ->
         Some(Binary(op, joined_column_expr("maxValues", col), val))
    [] op = "Equal" ->
         as_data_skipping_predicate(
           Expr_and(Binary("LessThanOrEqual", Column(col), val),
                    Binary("LessThanOrEqual", val, Column(col))))
    [] op = "NotEqual" ->
         Some(Expr_or(Binary("GreaterThan", joined_column_expr("minValues", col), val),
                      Binary("LessThan", joined_column_expr("maxValues", col), val)))
    [] OTHER -> None

\* the match on the variadic operator over the children's rewrites, lines 157-160
rewrite_variadic_or_flattens(op, children) ==
  Some(Variadic(op, flatten(children)))

rewrite_variadic(op, children) ==
  IF op = "And"
  THEN Some(Variadic("And", flatten(children)))
  ELSE IF \E i \in 1..Len(children) : children[i] = None
       THEN None
       ELSE Some(Variadic("Or", flatten(children)))

as_data_skipping_predicate(expr) ==
  CASE expr.kind = "BinaryOperation" ->
         LET n == normalize_operands(expr.op, expr.left, expr.right)
         IN  IF n = None THEN None
             ELSE rewrite_comparison(n[1].op, n[1].col, n[1].val)
    [] expr.kind = "UnaryOperation" /\ expr.op = "Not" ->
         as_inverted_data_skipping_predicate(expr.expr)
    [] expr.kind = "UnaryOperation" /\ expr.op = "IsNull" ->
         IF expr.expr.kind = "Column"
         THEN LET null_col == joined_column_expr("nullCount", expr.expr.name)
              IN  Some(Expr_or(get_tight_null_expr(null_col),
                               get_wide_null_expr(null_col)))
         ELSE None
    [] expr.kind = "VariadicOperation" ->
         rewrite_variadic(expr.op,
           [i \in 1..Len(expr.exprs) |-> as_data_skipping_predicate(expr.exprs[i])])
    [] OTHER -> None

as_inverted_data_skipping_predicate(expr) ==
  CASE expr.kind = "UnaryOperation" /\ expr.op = "Not" ->
         as_data_skipping_predicate(expr.expr)
    [] expr.kind = "UnaryOperation" /\ expr.op = "IsNull" ->
         IF expr.expr.kind = "Column"
         THEN LET null_col == joined_column_expr("nullCount", expr.expr.name)
              IN  Some(Expr_or(get_tight_not_null_expr(null_col),
                               get_wide_not_null_expr(null_col)))
         ELSE None
    [] expr.kind = "BinaryOperation" ->
         IF invert(expr.op) = None THEN None
         ELSE as_data_skipping_predicate(
                Binary(invert(expr.op)[1], expr.left, expr.right))
    [] expr.kind = "VariadicOperation" ->
         as_data_skipping_predicate(
           Variadic(variadic_invert(expr.op),
                    [i \in 1..Len(expr.exprs) |-> Unary("Not", expr.exprs[i])]))
    [] OTHER -> None

(***************************************************************************)
(* Evaluation under SQL three-valued logic (the engine's                   *)
(* ExpressionEvaluator).  A row is a function from column paths to         *)
(* scalars; the same evaluator runs a query predicate on a data row and a  *)
(* rewritten predicate on a parsed statistics record.                      *)
(***************************************************************************)
not3(x) == IF x = Null THEN Null ELSE Bool(x = False3)

and3(x, y) ==
  IF x = False3 \/ y = False3 THEN False3
  ELSE IF x = Null \/ y = Null THEN Null
  ELSE True3

or3(x, y) ==
  IF x = True3 \/ y = True3 THEN True3
  ELSE IF x = Null \/ y = Null THEN Null
  ELSE False3

\* Distinct never yields NULL: NULL is distinct from every value but NULL
compare(op, l, r) ==
  IF op = "Distinct" THEN Bool(l # r)
  ELSE IF l = Null \/ r = Null THEN Null
  ELSE CASE op = "LessThan" -> Bool(l.v < r.v)
         [] op = "LessThanOrEqual" -> Bool(l.v <= r.v)
         [] op = "GreaterThan" -> Bool(l.v > r.v)
         [] op = "GreaterThanOrEqual" -> Bool(l.v >= r.v)
         [] op = "Equal" -> Bool(l.v = r.v)
         [] op = "NotEqual" -> Bool(l.v # r.v)

RECURSIVE fold3(_, _, _)
fold3(op, vals, i) ==
  IF i > Len(vals) THEN (IF op = "And" THEN True3 ELSE False3)
  ELSE IF op = "And" THEN and3(vals[i], fold3(op, vals, i + 1))
  ELSE or3(vals[i], fold3(op, vals, i + 1))

RECURSIVE Eval(_, _)
Eval(e, row) ==
  CASE e.kind = "Column" -> row[e.name]
    [] e.kind = "Literal" -> e.value
    [] e.kind = "UnaryOperation" ->
         IF e.op = "Not" THEN not3(Eval(e.expr, row))
         ELSE Bool(Eval(e.expr, row) = Null)
    [] e.kind = "BinaryOperation" ->
         compare(e.op, Eval(e.left, row), Eval(e.right, row))
    [] e.kind = "VariadicOperation" ->
         fold3(e.op, [i \in 1..Len(e.exprs) |-> Eval(e.exprs[i], row)], 1)

(***************************************************************************)
(* The inputs: predicates, statistics records.                             *)
(***************************************************************************)
ColA == << "a" >>
ColB == << "b" >>
ColSX == << "s", "x" >>
Lit == Literal(Long(LitVal))

CompareOps ==
  {"LessThan", "LessThanOrEqual", "GreaterThan", "GreaterThanOrEqual",
   "Equal", "NotEqual"}

\* column-vs-literal comparisons, the literal on either side
Comparisons ==
  {Binary(op, Column(ColA), Lit) : op \in CompareOps}
    \cup {Binary(op, Lit, Column(ColA)) : op \in CompareOps}

\* predicates the rewrite cannot decide: an operator other than the six
\* comparisons, and a comparison of two columns
Undecidable ==
  {Binary("Distinct", Column(ColA), Lit),
   Binary("LessThan", Column(ColA), Column(ColB))}

Atoms ==
  Comparisons
    \cup {Binary("GreaterThan", Column(ColB), Lit),
          Binary("LessThan", Column(ColSX), Lit),
          Unary("IsNull", Column(ColA))}
    \cup Undecidable

\* the children variadic predicates are built from
Operands ==
  {Binary("LessThan", Column(ColA), Lit),
   Unary("IsNull", Column(ColA)),
   Binary("GreaterThan", Column(ColB), Lit),
   Binary("Distinct", Column(ColA), Lit)}

SeqsUpTo(S, n) == UNION {[1..k -> S] : k \in 0..n}

Junctions ==
  {Variadic(op, es) : op \in {"And", "Or"}, es \in SeqsUpTo(Operands, MaxArity)}

Level1 == Atoms \cup {Unary("Not", e) : e \in Atoms} \cup Junctions

\* one more level: negated negations and junctions, junctions inside junctions
Level2 ==
  Level1
    \cup {Unary("Not", e) : e \in Level1 \ Atoms}
    \cup {Variadic(op, << Binary("LessThan", Column(ColA), Lit), j >>) :
            op \in {"And", "Or"},
            j \in Junctions \cup {Unary("Not", k) : k \in Junctions}}

NullableVals == {Null} \cup {Long(n) : n \in 0..MaxVal}
NullableCounts == {Null} \cup {Long(n) : n \in 0..MaxCount}
Bool3 == {True3, False3, Null}

StatsColumns == {ColA, ColB, ColSX}
StatsPaths ==
  {<< "numRecords" >>, << "tightBounds" >>}
    \cup {<< k >> \o c : k \in {"nullCount", "minValues", "maxValues"},
                         c \in StatsColumns}

\* a parsed statistics record: statistics of column a, none collected for
\* the other columns
StatsRecord(nr, tb, nc, mn, mx) ==
  [p \in StatsPaths |->
     CASE p = << "numRecords" >> -> nr
       [] p = << "tightBounds" >> -> tb
       [] p = << "nullCount" >> \o ColA -> nc
       [] p = << "minValues" >> \o ColA -> mn
       [] p = << "maxValues" >> \o ColA -> mx
       [] OTHER -> Null]

StatsRows ==
  {StatsRecord(nr, tb, nc, mm[1], mm[2]) :
     nr \in NullableCounts, tb \in Bool3, nc \in NullableCounts,
     mm \in {m \in NullableVals \X NullableVals :
               \/ m[1] = Null /\ m[2] = Null
               \/ m[1] # Null /\ m[2] # Null /\ m[1].v <= m[2].v}}

(***************************************************************************)
(* The statistics columns of column a.                                     *)
(***************************************************************************)
MinA == << "minValues" >> \o ColA
MaxA == << "maxValues" >> \o ColA
NullCountA == << "nullCount" >> \o ColA

(***************************************************************************)
(* Schemas (crate::schema).  A data type is a primitive or a struct of     *)
(* fields; a schema is a sequence of fields.                               *)
(***************************************************************************)
Primitive(t) == [ptype |-> t, fields |-> << >>]
Struct(fs) == [ptype |-> "struct", fields |-> fs]
StructField(name, dt) == [name |-> name, data_type |-> dt]

\* the leaf column paths of a schema
RECURSIVE LeafPaths(_)
LeafPaths(fs) ==
  UNION {IF fs[i].data_type.ptype = "struct"
         THEN {<< fs[i].name >> \o q : q \in LeafPaths(fs[i].data_type.fields)}
         ELSE {<< fs[i].name >>} : i \in 1..Len(fs)}

\* NullCountStatsTransform: every leaf primitive becomes LONG
RECURSIVE NullCountStatsTransform(_)
NullCountStatsTransform(fs) ==
  [i \in 1..Len(fs) |->
     StructField(fs[i].name,
       IF fs[i].data_type.ptype = "struct"
       THEN Struct(NullCountStatsTransform(fs[i].data_type.fields))
       ELSE Primitive("long"))]

FieldA == StructField("a", Primitive("integer"))
FieldB == StructField("b", Primitive("string"))
FieldS == StructField("s", Struct(<< StructField("x", Primitive("integer")) >>))

TableSchemas == {<< FieldA >>, << FieldA, FieldB >>, << FieldS >>}

(***************************************************************************)
(* DataSkippingFilter.                                                     *)
(***************************************************************************)
FILTER_EXPR_equal_true ==
  Binary("Equal", Column(<< "predicate" >>), Literal(True3))

\* column_expr!("predicate").distinct(false)
FILTER_EXPR == Binary("Distinct", Column(<< "predicate" >>), Literal(False3))

\* the final selection step on one three-valued result
Keep(x) == Eval(FILTER_EXPR, [p \in {<< "predicate" >>} |-> x]) = True3

\* the fields of the table schema the predicate references by a
\* single-segment name, in schema order
data_fields_of(schema, field_names) ==
  SelectSeq(schema, LAMBDA f : << f.name >> \in field_names)

stats_schema_of(data_fields) ==
  << StructField("numRecords", Primitive("long")),
     StructField("tightBounds", Primitive("boolean")),
     StructField("nullCount", Struct(NullCountStatsTransform(data_fields))),
     StructField("minValues", Struct(data_fields)),
     StructField("maxValues", Struct(data_fields)) >>

Filter(schema, skipping) ==
  [stats_schema |-> schema, skipping_predicate |-> skipping,
   filter_expr |-> FILTER_EXPR]

new_without_eligibility_check(schema, pred) ==
  IF pred = None THEN None
  ELSE LET data_fields == data_fields_of(schema, references(pred[1]))
           skipping == as_data_skipping_predicate(pred[1])
       IN  IF skipping = None THEN None
           ELSE Some(Filter(stats_schema_of(data_fields), skipping[1]))

\* DataSkippingFilter::new
new(schema, pred) ==
  IF pred = None THEN None
  ELSE LET data_fields == data_fields_of(schema, references(pred[1]))
           skipping == as_data_skipping_predicate(pred[1])
       IN  IF data_fields = << >> THEN None
           ELSE IF skipping = None THEN None
           ELSE Some(Filter(stats_schema_of(data_fields), skipping[1]))

\* JsonHandler::parse_json of one raw statistics object: the fields of the
\* schema, NULL where the object has none (a missing object has none at all)
parse_json(raw, schema) ==
  [p \in LeafPaths(schema) |-> IF p \in DOMAIN raw THEN raw[p] ELSE Null]

Ok(v) == [ok |-> TRUE, selection_vector |-> v]
Err == [ok |-> FALSE, selection_vector |-> << >>]

\* DataSkippingFilter::apply; an evaluator asked for a column its input
\* schema does not have reports an error, which apply hands on
apply(f, batch) ==
  LET stats_col == [i \in 1..Len(batch) |-> batch[i].stats]
      parsed_stats == [i \in 1..Len(batch) |-> parse_json(stats_col[i], f.stats_schema)]
  IN  IF ~(references(f.skipping_predicate) \subseteq LeafPaths(f.stats_schema))
      THEN Err
      ELSE LET skipping_predicate ==
                 [i \in 1..Len(batch) |-> Eval(f.skipping_predicate, parsed_stats[i])]
               selection_vector ==
                 [i \in 1..Len(batch) |->
                    Eval(f.filter_expr,
                         [p \in {<< "predicate" >>} |-> skipping_predicate[i]]) = True3]
           IN  Ok(selection_vector)

\* raw statistics of a file whose writer collected them for column a
RawStats(nr, tb, nc, mn, mx) ==
  [p \in {<< "numRecords" >>, << "tightBounds" >>, NullCountA, MinA, MaxA} |->
     CASE p = << "numRecords" >> -> nr
       [] p = << "tightBounds" >> -> tb
       [] p = NullCountA -> nc
       [] p = MinA -> mn
       [] p = MaxA -> mx]

\* a file whose range straddles the literal, one whose range lies above it,
\* an all-null file with wide bounds, a file that holds the literal and a
\* null and records no tightBounds, and a file without statistics
StraddlingFile == RawStats(Long(MaxCount), True3, Long(0), Long(0), Long(MaxVal))
AboveFile == RawStats(Long(MaxCount), True3, Long(0), Long(MaxVal), Long(MaxVal))
AllNullFile == RawStats(Long(MaxCount), False3, Long(MaxCount), Null, Null)
PartlyNullFile == RawStats(Long(MaxCount), Null, Long(1), Long(LitVal), Long(LitVal))
NoStatsFile == << >>

\* an add action of the log, with its add.stats
AddAction(raw) == [stats |-> raw]
Batches ==
  SeqsUpTo({AddAction(r) : r \in {StraddlingFile, AboveFile, AllNullFile,
                                   PartlyNullFile, NoStatsFile}},
           MaxBatch)

(***************************************************************************)
(* State.                                                                  *)
(***************************************************************************)
VARIABLES
  predicate,     \* Option<Expr>: the query predicate
  rewritten,     \* Option<Expr>: what as_data_skipping_predicate returned
  stats,         \* the statistics record the rewritten predicate ran on
  value,         \* its three-valued result
  table_schema,  \* the table schema given to new
  filter,        \* Option<DataSkippingFilter>: what new returned
  actions,       \* the metadata batch given to apply
  result,        \* DeltaResult<Vec<bool>>: what apply returned
  pc

vars ==
  << predicate, rewritten, stats, value, table_schema, filter, actions, result, pc >>

\* a direct call of the rewrite, as in test_rewrite_basic_comparison
Rewrite ==
  /\ pc = "input"
  /\ rewritten' = as_data_skipping_predicate(predicate[1])
  /\ pc' = "rewritten"
  /\ UNCHANGED << predicate, stats, value, table_schema, filter, actions, result >>

\* the skipping evaluator run on one statistics record
Evaluate ==
  /\ pc = "rewritten"
  /\ rewritten # None
  /\ \E s \in StatsRows :
       /\ stats' = s
       /\ value' = Eval(rewritten[1], s)
  /\ pc' = "evaluated"
  /\ UNCHANGED << predicate, rewritten, table_schema, filter, actions, result >>

\* DataSkippingFilter::new(engine, table_schema, predicate)
New ==
  /\ pc = "start"
  /\ filter' = new(table_schema, predicate)
  /\ pc' = "constructed"
  /\ UNCHANGED << predicate, rewritten, stats, value, table_schema, actions, result >>

\* filter.apply(actions) on one metadata batch; the filter is read-only
Apply ==
  /\ pc = "constructed"
  /\ filter # None
  /\ \E batch \in Batches :
       /\ actions' = batch
       /\ result' = apply(filter[1], batch)
  /\ pc' = "applied"
  /\ UNCHANGED << predicate, rewritten, stats, value, table_schema, filter >>

Unused ==
  /\ rewritten = None
  /\ stats = << >>
  /\ value = Null
  /\ filter = None
  /\ actions = << >>
  /\ result = Ok(<< >>)

Init ==
  /\ predicate \in {None} \cup {Some(e) : e \in Level1}
  /\ table_schema \in TableSchemas
  /\ Unused
  /\ pc = "start"

Next == New \/ Apply
Spec == Init /\ [][Next]_vars

RewriteInit ==
  /\ predicate \in {Some(e) : e \in Level2}
  /\ table_schema = << >>
  /\ Unused
  /\ pc = "input"

RewriteNext == Rewrite
RewriteSpec == RewriteInit /\ [][RewriteNext]_vars

EvalInit ==
  /\ predicate \in {Some(e) : e \in Level2}
  /\ table_schema = << >>
  /\ Unused
  /\ pc = "input"

EvalNext == Rewrite \/ Evaluate
EvalSpec == EvalInit /\ [][EvalNext]_vars

(***************************************************************************)
(* The claims.                                                             *)
(***************************************************************************)
\* the record accurately describes some file: the counts are present and
\* consistent, and min/max are present when the file has a non-null value
Accurate(s) ==
  /\ s[<< "numRecords" >>] # Null
  /\ s[NullCountA] # Null
  /\ s[NullCountA].v <= s[<< "numRecords" >>].v
  /\ s[NullCountA].v < s[<< "numRecords" >>].v => s[MinA] # Null /\ s[MaxA] # Null

\* v can be the value of column a in a row of a file that s describes
ValueInFile(s, v) ==
  IF v = Null
  THEN s[NullCountA].v > 0
  ELSE /\ s[NullCountA].v < s[<< "numRecords" >>].v
       /\ s[MinA].v <= v.v
       /\ v.v <= s[MaxA].v

\* the data rows, over the columns e mentions, of files that s describes (an
\* empty file has none); the columns without statistics take any value
RowsOf(e, s) ==
  IF s[<< "numRecords" >>].v = 0 THEN {}
  ELSE {r \in [references(e) -> NullableVals] :
          ColA \in DOMAIN r => ValueInFile(s, r[ColA])}

\* FALSE < NULL < TRUE
Rank(x) == IF x = False3 THEN 0 ELSE IF x = Null THEN 1 ELSE 2

IsJunction(e, op) == e.kind = "VariadicOperation" /\ e.op = op
IsNot(e) == e.kind = "UnaryOperation" /\ e.op = "Not"

\* C1 (soundness, no false negatives): when the rewritten predicate is FALSE
\* on a statistics record that accurately describes a file, the query
\* predicate is TRUE on no row of that file.
C1_Soundness ==
  (pc = "evaluated" /\ Accurate(stats) /\ value = False3)
    => \A r \in RowsOf(predicate[1], stats) : Eval(predicate[1], r) # True3

\* C2: apply returns a selection vector as long as the batch, in input
\* order, whose i-th entry is false exactly when the rewritten predicate is
\* FALSE on the parsed statistics of row i (so TRUE and NULL both keep).
C2_SelectionVector ==
  (pc = "applied" /\ result.ok)
    => /\ Len(result.selection_vector) = Len(actions)
       /\ \A i \in 1..Len(actions) :
            result.selection_vector[i]
              = (Eval(filter[1].skipping_predicate,
                      parse_json(actions[i].stats, filter[1].stats_schema)) # False3)

\* the spec's end-to-end scenario: a = lit over a straddling file, a file
\* above the literal and an all-null file gives [true, false, true]
C2_Witness ==
  /\ pc = "applied"
  /\ predicate = Some(Binary("Equal", Column(ColA), Lit))
  /\ actions = << AddAction(StraddlingFile), AddAction(AboveFile), AddAction(AllNullFile) >>
  /\ result = Ok(<< TRUE, FALSE, TRUE >>)

C4_MonotoneWeakening ==
  (pc = "evaluated" /\ Accurate(stats))
    => \A r \in RowsOf(predicate[1], stats) :
         Rank(value) >= Rank(Eval(predicate[1], r))

\* the rewrite the claim gives for a comparison normalised to (col op lit)
ComparisonForm(op, col, lit) ==
  CASE op \in {"LessThan", "LessThanOrEqual"} ->
         Binary(op, Column(<< "minValues" >> \o col), lit)
    [] op \in {"GreaterThan", "GreaterThanOrEqual"} ->
         Binary(op, Column(<< "maxValues" >> \o col), lit)
    [] op = "Equal" ->
         Variadic("And",
           << Binary("LessThanOrEqual", Column(<< "minValues" >> \o col), lit),
              Binary("GreaterThanOrEqual", Column(<< "maxValues" >> \o col), lit) >>)
    [] op = "NotEqual" ->
         Variadic("Or",
           << Binary("GreaterThan", Column(<< "minValues" >> \o col), lit),
              Binary("LessThan", Column(<< "maxValues" >> \o col), lit) >>)

Swapped(op) ==
  CASE op = "LessThan" -> "GreaterThan"
    [] op = "LessThanOrEqual" -> "GreaterThanOrEqual"
    [] op = "GreaterThan" -> "LessThan"
    [] op = "GreaterThanOrEqual" -> "LessThanOrEqual"
    [] OTHER -> op

OrOfRewrites(es) ==
  IF \E i \in 1..Len(es) : as_data_skipping_predicate(es[i]) = None
  THEN None
  ELSE Some(Variadic("Or",
         [i \in 1..Len(es) |-> as_data_skipping_predicate(es[i])[1]]))

Negated(es) == [i \in 1..Len(es) |-> Unary("Not", es[i])]

\* C6 (Or-poison): an Or is rewritten to none when a child's rewrite is
\* none and to the Or of all child rewrites otherwise; the same holds of an
\* Or nested in a junction and of the Or that a pushed-down Not makes of an
\* And.
C6_OrPoison ==
  pc = "rewritten"
    => LET e == predicate[1]
       IN  /\ IsJunction(e, "Or") => rewritten = OrOfRewrites(e.exprs)
           /\ (IsNot(e) /\ IsJunction(e.expr, "And"))
                => rewritten = OrOfRewrites(Negated(e.expr.exprs))
           /\ e.kind = "VariadicOperation"
                => \A i \in 1..Len(e.exprs) :
                     LET c == e.exprs[i]
                     IN  /\ IsJunction(c, "Or")
                              => as_data_skipping_predicate(c) = OrOfRewrites(c.exprs)
                         /\ (IsNot(c) /\ IsJunction(c.expr, "And"))
                              => as_data_skipping_predicate(c)
                                   = OrOfRewrites(Negated(c.expr.exprs))

\* Not(And(a < lit, U)) with Not(U) undecidable is rewritten to none
C6_Witness ==
  /\ pc = "rewritten"
  /\ predicate =
       Some(Unary("Not",
              Variadic("And", << Binary("LessThan", Column(ColA), Lit),
                                 Binary("Distinct", Column(ColA), Lit) >>)))
  /\ rewritten = None

\* C7: for col != lit, in either operand order, the rewritten predicate is
\* FALSE on a statistics record only when minValues.col = lit and
\* maxValues.col = lit.
C7_NeSkipsOnlyConstantFile ==
  (/\ pc = "evaluated"
   /\ predicate[1] \in {Binary("NotEqual", Column(ColA), Lit),
                        Binary("NotEqual", Lit, Column(ColA))}
   /\ value = False3)
    => stats[MinA] = Lit.value /\ stats[MaxA] = Lit.value

\* C8: an And none of whose children has a rewrite (an And of no children
\* included) is rewritten to none.
C8_AndWithoutSurvivorsIsNone ==
  (/\ pc = "rewritten"
   /\ IsJunction(predicate[1], "And")
   /\ \A i \in 1..Len(predicate[1].exprs) :
        as_data_skipping_predicate(predicate[1].exprs[i]) = None)
    => rewritten = None

\* C9: a statistics record with tightBounds = NULL gets the keep/skip
\* decision of the record that differs from it only in tightBounds = TRUE.
C9_NullTightBoundsAsTrue ==
  (pc = "evaluated" /\ stats[<< "tightBounds" >>] = Null)
    => Keep(value)
         = Keep(Eval(rewritten[1], [stats EXCEPT ![<< "tightBounds" >>] = True3]))

\* C10: every column path the filter's rewritten predicate reads is a field
\* of the stats schema new built (a conjunct over a column the table schema
\* lacks is dropped).
C10_ReadsOnlyStatsSchema ==
  (pc # "start" /\ filter # None)
    => references(filter[1].skipping_predicate)
         \subseteq LeafPaths(filter[1].stats_schema)

====
